---------------------------- MODULE Spec2Model ----------------------------
(***************************************************************************)
(* XPlayer: the deffcode playback engine (src/deffcode_player.py).         *)
(*                                                                         *)
(* DeffcodePlayer keeps a decoder, a look-ahead frame buffer, a wall-clock *)
(* position and an audio path (a _play_audio thread per started audio      *)
(* session and the PortAudio callback) and is driven by two QTimers.       *)
(* The variables are the fields of the DeffcodePlayer object, the attached *)
(* DeffcodePlaylist, the PyAudio streams and the audio threads.            *)
(*                                                                         *)
(* Every handler of the control thread is one action.  Handlers are        *)
(* written as operators from a record of all fields ("world") to the       *)
(* record after the handler, so that the calls a handler makes (stop()     *)
(* from a tick, stop()/setMedia()/play() from the playlist) compose.       *)
(***************************************************************************)
EXTENDS Integers, Sequences, FiniteSets, TLC

VARIABLES
    media_path,        \* self.media_path: "none" (None) or a path
    decoder,           \* self.decoder: NoDecoder or the FFdecoder opened
    frame_generator,   \* self.frame_generator: NoGen (no attribute) or generator
    frame_buffer,      \* self.frame_buffer: list of decoded frames
    _state,            \* self._state
    _rate,             \* self._rate, in percent (1.0 is 100)
    _volume,           \* self._volume
    duration,          \* self.duration (ms)
    current_position,  \* self.current_position (ms)
    timer,             \* self.timer.isActive()
    position_timer,    \* self.position_timer.isActive()
    _duration_sent,    \* self._duration_sent
    seek_position,     \* self.seek_position (0 when the attribute is absent)
    audio_file,        \* self.audio_file: "none" or the media it was extracted from
    temp_wav,          \* the media whose extracted WAV lies in the temp directory
    audio_stream,      \* self.audio_stream: NoStream or a stream
    audio_thread,      \* self.audio_thread: NoThread or the last thread started
    audio_playing,     \* self.audio_playing
    audio_paused,      \* self.audio_paused
    _wf,               \* self._wf is an open wave file (FALSE: None or absent)
    wf_pos,            \* self._wf.tell(), in ms of audio (0 while _wf is closed)
    callback,          \* the locals of an _audio_callback that has read
                       \* seek_position and has not yet written it
    _last_sync_time,   \* self._last_sync_time, a time.time() in ms (0 at first)
    clock,             \* time.time(), in ms
    turn,              \* which of the periodic callers is due in this period
    streams,           \* PyAudio streams, by the thread that opened them
    threads,           \* where each _play_audio thread is
    playlist,          \* self.playlist is set
    items,             \* playlist.items
    current_index,     \* playlist.current_index
    play_mode,         \* playlist.play_mode
    player,            \* playlist.player is set
    lastOp,            \* history: the handler that ran last, and its argument
    machine,           \* the files on disk, and whether ffmpeg extracts audio
    before,            \* history: the fields pause() found, kept over a play()
    shown,             \* history: the frames shown since the decoder was opened
    raised,            \* history: the reads at which that decoder has raised
    pending,           \* history: the handler that wrote the pending seek_position
    extracted,         \* history: how the last run of ffmpeg in _extract_audio
                       \* ended ("never", "ok", "failed")
    resyncs,           \* history: the last two drift corrections of the audio
                       \* since the last call of the user
    teardown,          \* history: what the last handler cancelled and released, in order
    emitted            \* history: the signals the last handler emitted, in order

vars == <<media_path, decoder, frame_generator, frame_buffer, _state, _rate,
          _volume, duration, current_position, timer, position_timer, _duration_sent,
          seek_position, audio_file, temp_wav, audio_stream, audio_thread, audio_playing,
          audio_paused, _wf, wf_pos, callback, _last_sync_time, clock, turn, streams, threads, playlist, items, current_index,
          play_mode, player, machine, lastOp, before, shown, raised, pending,
          extracted, resyncs, teardown, emitted>>

\* The fields of the player and its collaborators, without the history.
progVars == <<media_path, decoder, frame_generator, frame_buffer, _state, _rate,
          _volume, duration, current_position, timer, position_timer, _duration_sent,
          seek_position, audio_file, temp_wav, audio_stream, audio_thread, audio_playing,
          audio_paused, _wf, wf_pos, callback, _last_sync_time, clock, turn, streams, threads, playlist, items, current_index,
          play_mode, player, machine>>

-----------------------------------------------------------------------------
(* Program constants *)

StoppedState == 0
PlayingState == 1
PausedState == 2

frame_buffer_size == 5
DefaultVolume == 50
MinVolume == 0
MaxVolume == 100
PositionStepMs == 100

\* The interval of the position timer and the sleep of the drift monitor (ms).
PeriodMs == 100
\* The frame rate and the duration _init_decoder falls back on.
DefaultFrameRate == 30
DefaultDuration == 3600000
\* The drift the monitor of _play_audio reports, and the drift and the time
\* since the last correction its test names.
SoftDriftMs == 200
HardDriftMs == 1000
MinResyncGapMs == 2000
\* The drift at which _audio_callback moves the cursor, and the distance from a
\* pending seek offset at which it does.
CallbackDriftMs == 300
SeekToleranceMs == 50

Sequential == 0
Random == 1
CurrentItemOnce == 2
CurrentItemInLoop == 3
Loop == 4

-----------------------------------------------------------------------------
(* Bounds of the model: the media files on disk and the inputs tried *)

\* Media "a" and "b" are files a machine may hold; no machine holds "bad".
DurA == 400
DurB == 200
\* Media "long" outlasts twice the frame buffer.
DurLong == 800
\* Frames per second of both files.
Fps == 15
\* Audio threads (and the streams they open) that can exist at once.
MaxThreads == 2
\* Most items the playlist holds.
MaxItems == 2
\* The latest fetch of a read-ahead loop at which a decode error is tried.
MaxErrAt == 0
\* time.time() when the player is constructed, and the time followed from then.
StartTime == 5000
MaxElapsed == 800
\* Seconds in the metadata are kept to this many parts of a millisecond.
TenthsPerMs == 10
\* A seek target far into media "song".
SeekFar == 2000
\* A second target: further from the first than a callback's tolerance and a
\* period of audio, and no further than the drift a callback lets be.
SeekNext == 2200
\* Media "song" outlasts the time followed at twice the speed.
DurSong == 5000
\* Volumes are asked for from this far below the least to this far above the
\* greatest the player keeps.
VolumeMargin == 50

Min(x, y) == IF x < y THEN x ELSE y
Max(x, y) == IF x > y THEN x ELSE y
Abs(x) == IF x < 0 THEN -x ELSE x

Paths == {"a", "b", "bad"}
Rates == {100, 200}
SeekTargets == {-100, DurB, DurA + 100}
ThreadIds == 1..MaxThreads
Volumes == (MinVolume - VolumeMargin)..(MaxVolume + VolumeMargin)

NoDecoder == [path |-> "none", ss |-> 0]
NoGen == [path |-> "none", next |-> 0]
NoStream == 0
\* No callback is between its reading of seek_position and its writing.
NotInCallback == [expected_pos |-> -1, current_audio_pos |-> -1]
NoThread == 0
Null == <<>>

-----------------------------------------------------------------------------
(* The metadata of the decoder and the duration _init_decoder makes of it *)

\* A metadata value: absent, a text that is no number, a float (a number, nan
\* or inf), or an int too large for a float. Seconds are numbers of tenths of a
\* millisecond; "length" stands for the true length of the file in seconds.
Val(k, v) == [k |-> k, v |-> v]
Absent == Val("absent", 0)
Text == Val("text", 0)
NaN == Val("nan", 0)
Inf == Val("inf", 0)
Huge == Val("huge", 0)
Length == Val("length", 0)
Num(n) == Val("num", n)

\* What a Python expression comes to: a value, or the exception it raises.
Ok(x) == [exc |-> "", val |-> x]
Raise(e) == [exc |-> e, val |-> 0]

\* int(a / b) for b > 0: Python truncates towards zero.
Trunc(a, b) == IF a >= 0 THEN a \div b ELSE -((-a) \div b)

\* float(str(x))
FloatOfStr(x) ==
    IF x.k = "text" THEN Raise("ValueError")
    ELSE IF x.k = "huge" THEN Ok(Inf)
    ELSE Ok(x)

\* float(x)
FloatOf(x) ==
    IF x.k = "text" THEN Raise("ValueError")
    ELSE IF x.k = "huge" THEN Raise("OverflowError")
    ELSE Ok(x)

\* x > 0 on floats
Positive(x) == x.k = "inf" \/ (x.k = "num" /\ x.v > 0)

\* int(x * 1000) for x seconds: the milliseconds.
MsOfSeconds(x) ==
    IF x.k = "nan" THEN Raise("ValueError")
    ELSE IF x.k = "inf" THEN Raise("OverflowError")
    ELSE Ok(Trunc(x.v, TenthsPerMs))

\* int((nb_frames / frame_rate) * 1000) for frame_rate > 0
MsOfFrames(nb, rate) ==
    IF nb.k = "nan" \/ (nb.k = "inf" /\ rate.k = "inf") THEN Raise("ValueError")
    ELSE IF nb.k = "inf" THEN Raise("OverflowError")
    ELSE IF rate.k = "inf" THEN Ok(0)
    ELSE Ok(Trunc(nb.v * 1000, rate.v))

\* int((size * 8 / bit_rate) * 1000) for bit_rate > 0
MsOfSize(size, bit_rate) ==
    IF size.k = "nan" \/ (size.k = "inf" /\ bit_rate.k = "inf")
    THEN Raise("ValueError")
    ELSE IF size.k = "inf" THEN Raise("OverflowError")
    ELSE IF bit_rate.k = "inf" THEN Ok(0)
    ELSE Ok(Trunc(size.v * 8 * 1000, bit_rate.v))

\* except (kinds): an exception of these kinds leaves the duration at d.
Except(r, kinds, d) == IF r.exc \in kinds THEN Ok(d) ELSE r

\* self.frame_rate of _init_decoder.
FrameRateOf(md) ==
    IF md.is_dict /\ md.source_video_framerate # Absent
    THEN Except(FloatOf(md.source_video_framerate), {"ValueError"},
                Num(DefaultFrameRate))
    ELSE Ok(Num(DefaultFrameRate))

\* The duration from source_duration_sec.
FromSourceDuration(md) ==
    IF md.is_dict /\ md.source_duration_sec # Absent
    THEN LET f == FloatOfStr(md.source_duration_sec)
         IN  IF f.exc # "" THEN Except(f, {"ValueError", "TypeError"}, 0)
             ELSE IF Positive(f.val)
             THEN Except(MsOfSeconds(f.val), {"ValueError", "TypeError"}, 0)
             ELSE Ok(0)
    ELSE Ok(0)

\* The loop over the duration keys, from key i on: the first key with a
\* positive number sets the duration and ends the loop.
RECURSIVE FromDurationKeys(_, _)
FromDurationKeys(keys, i) ==
    IF i > Len(keys) THEN Ok(0)
    ELSE IF keys[i] = Absent THEN FromDurationKeys(keys, i + 1)
    ELSE LET f == FloatOfStr(keys[i])
         IN  IF f.exc = "ValueError" THEN FromDurationKeys(keys, i + 1)
             ELSE IF Positive(f.val) THEN MsOfSeconds(f.val)
             ELSE FromDurationKeys(keys, i + 1)

\* The loop over the frame-count keys, from key i on.
RECURSIVE FromFrameKeys(_, _, _)
FromFrameKeys(keys, rate, i) ==
    IF i > Len(keys) THEN Ok(0)
    ELSE IF keys[i] = Absent THEN FromFrameKeys(keys, rate, i + 1)
    ELSE LET f == FloatOfStr(keys[i])
         IN  IF f.exc # "" \/ ~Positive(f.val)
             THEN FromFrameKeys(keys, rate, i + 1)
             ELSE LET r == MsOfFrames(f.val, rate)
                  IN  IF r.exc \in {"ValueError", "TypeError"}
                      THEN FromFrameKeys(keys, rate, i + 1)
                      ELSE r

\* The estimate from bit_rate and size.
FromBitRate(md) ==
    IF md.bit_rate # Absent /\ md.size # Absent
    THEN LET b == FloatOfStr(md.bit_rate)
             z == FloatOfStr(md.size)
             r == IF b.exc # "" THEN b
                  ELSE IF z.exc # "" THEN z
                  ELSE IF Positive(b.val) THEN MsOfSize(z.val, b.val)
                  ELSE Ok(0)
         IN  Except(r, {"ValueError", "TypeError", "ZeroDivisionError"}, 0)
    ELSE Ok(0)

\* Each further source is asked while the duration d is not positive and
\* nothing has been raised: the duration keys,
OrDurationKeys(md, d) ==
    IF d.exc = "" /\ d.val <= 0 /\ md.is_dict
    THEN FromDurationKeys(md.durations, 1) ELSE d
\* the frame counts, when the frame rate is positive,
OrFrameKeys(md, rate, d) ==
    IF d.exc = "" /\ d.val <= 0 /\ md.is_dict /\ Positive(rate)
    THEN FromFrameKeys(md.frames, rate, 1) ELSE d
\* and the estimate from bit rate and size.
OrBitRate(md, d) ==
    IF d.exc = "" /\ d.val <= 0 /\ md.is_dict THEN FromBitRate(md) ELSE d
\* except Exception: an exception none of the inner handlers took sets the
\* duration to 0.
Caught(d) == IF d.exc # "" THEN 0 ELSE d.val
\* The duration the metadata yield.
FromMetadata(md, rate) ==
    Caught(OrBitRate(md, OrFrameKeys(md, rate,
               OrDurationKeys(md, FromSourceDuration(md)))))

\* The duration ffprobe yields, asked when the metadata yielded d <= 0.
FromProbe(md, d) ==
    IF md.probe_rc = 0 /\ md.probe_out # Absent
    THEN LET f == FloatOfStr(md.probe_out)
         IN  IF f.exc = "" /\ Positive(f.val)
             THEN LET r == MsOfSeconds(f.val)
                  IN  IF r.exc = "" THEN r.val ELSE d
             ELSE d
    ELSE d

\* ffprobe is asked while the duration is not positive,
OrProbe(md, d) == IF d <= 0 THEN FromProbe(md, d) ELSE d
\* and the default is the last resort.
OrDefault(d) == IF d <= 0 THEN DefaultDuration ELSE d

\* _init_decoder without its last resort.
ComputeDuration_NoDefault(md) ==
    IF FrameRateOf(md).exc # "" THEN FrameRateOf(md)
    ELSE Ok(OrProbe(md, FromMetadata(md, FrameRateOf(md).val)))

\* The duration once self.frame_rate is set, or the exception float() raised.
DurationAtRate(md, rate) ==
    IF rate.exc # "" THEN rate
    ELSE Ok(OrDefault(OrProbe(md, FromMetadata(md, rate.val))))
\* self.duration as _init_decoder computes it, or the exception that ends
\* _init_decoder before.
ComputeDuration(md) == DurationAtRate(md, FrameRateOf(md))

\* Metadata that tell the length of the file, and nothing else.
ExactMeta ==
    [is_dict |-> TRUE, source_video_framerate |-> Absent,
     source_duration_sec |-> Length, durations |-> <<Absent, Absent, Absent>>,
     frames |-> <<Absent, Absent, Absent, Absent>>, bit_rate |-> Absent,
     size |-> Absent, probe_rc |-> 1, probe_out |-> Absent]

\* The machines the player is run on: the media files on the disk, whether
\* ffmpeg is there to extract audio, the playback rates and the paths its
\* user picks, and how many audio threads (slots) are followed at once.
Machines ==
    {[files |-> {"a", "b"}, ffmpeg |-> FALSE, faults |-> TRUE, rates |-> Rates,
      paths |-> Paths, targets |-> SeekTargets,
      meta |-> ExactMeta, slots |-> 1],
     [files |-> {"b"}, ffmpeg |-> TRUE, faults |-> TRUE, rates |-> {100},
      paths |-> Paths, targets |-> SeekTargets,
      meta |-> ExactMeta, slots |-> 1]}

\* The machine of the frame path: one file longer than the read-ahead, no audio.
FrameMachines ==
    {[files |-> {"long"}, ffmpeg |-> FALSE, faults |-> TRUE, rates |-> {100},
      paths |-> {"long", "bad"}, targets |-> SeekTargets,
      meta |-> ExactMeta, slots |-> 1]}

\* The machine of the audio clock: one file with audio, played at both rates.
SyncMachines ==
    {[files |-> {"song"}, ffmpeg |-> TRUE, faults |-> FALSE, rates |-> Rates,
      paths |-> {"song"}, targets |-> {0, SeekFar},
      meta |-> ExactMeta, slots |-> 1]}

\* The machine of the seeks: one file with audio and two targets in it.
SeekMachines ==
    {[files |-> {"song"}, ffmpeg |-> TRUE, faults |-> FALSE, rates |-> {100},
      paths |-> {"song"}, targets |-> {SeekFar, SeekNext},
      meta |-> ExactMeta, slots |-> 1]}

\* The machine of the audio threads: one file with audio, and room for an
\* audio thread started while an older one is alive.
ThreadMachines ==
    {[files |-> {"b"}, ffmpeg |-> TRUE, faults |-> FALSE, rates |-> {100},
      paths |-> {"b"}, targets |-> {0},
      meta |-> ExactMeta, slots |-> MaxThreads]}

\* The machine the playlist is run on: one short file, no audio.
PlaylistMachines ==
    {[files |-> {"b"}, ffmpeg |-> FALSE, faults |-> TRUE, rates |-> {100},
      paths |-> {"b", "bad"}, targets |-> SeekTargets,
      meta |-> ExactMeta, slots |-> 1]}

\* The machines of the duration: one file, its metadata and the answer of
\* ffprobe of every kind; metadata that are no dict leave ffprobe alone.
\* The true length of file "b", in tenths of a millisecond.
TrueTenths == DurB * TenthsPerMs
\* What ffprobe prints: nothing, no number, or seconds.
ProbeOuts == {Absent, Text, Inf, Num(4), Num(TrueTenths)}
DictMetas ==
    [is_dict : {TRUE},
     source_video_framerate : {Absent, Huge, Inf, Num(Fps)},
     source_duration_sec : {Absent, Text, Inf, Num(0), Num(4), Num(TrueTenths)},
     durations : {<<Absent, Absent, Absent>>, <<Text, Absent, Num(TrueTenths)>>,
                  <<Num(4), Num(TrueTenths), Absent>>},
     frames : {<<Absent, Absent, Absent, Absent>>,
               <<Text, Absent, Num(3), Absent>>, <<Inf, Absent, Absent, Absent>>},
     bit_rate : {Absent, Inf, Num(8)}, size : {Inf, Num(-1), Num(1)},
     probe_rc : {0}, probe_out : ProbeOuts]
OtherMetas ==
    [is_dict : {FALSE},
     source_video_framerate : {Absent}, source_duration_sec : {Absent},
     durations : {<<Absent, Absent, Absent>>},
     frames : {<<Absent, Absent, Absent, Absent>>},
     bit_rate : {Absent}, size : {Absent},
     probe_rc : {0, 1}, probe_out : ProbeOuts]
DurationMachines ==
    {[files |-> {"b"}, ffmpeg |-> FALSE, faults |-> FALSE, rates |-> {100},
      paths |-> {"b"}, targets |-> {DurB}, meta |-> m,
      slots |-> 1] :
        m \in DictMetas \cup OtherMetas}

\* os.path.exists(path)
Exists(w, p) == p \in w.machine.files
\* The length of a file, in ms.
MediaDuration(p) ==
    IF p = "a" THEN DurA
    ELSE IF p = "long" THEN DurLong
    ELSE IF p = "song" THEN DurSong
    ELSE DurB
\* self.decoder.metadata and the answer of ffprobe for the file at p.
Metadata(w, p) ==
    [w.machine.meta EXCEPT
        !.source_duration_sec =
            IF @ = Length THEN Num(MediaDuration(p) * TenthsPerMs) ELSE @]
\* The number of frames the decoder yields for a file read from its start.
NFrames(p) == (MediaDuration(p) * Fps) \div 1000
\* The first frame FFmpeg yields when opened with -ss offset (ms).
FrameAt(p, ss) == Min(NFrames(p), (ss * Fps) \div 1000)
\* 1000 / frame_rate, rounded up: one frame interval in ms.
FrameIntervalMs == (1000 + Fps - 1) \div Fps


-----------------------------------------------------------------------------
(* The world: every field, as one record *)

World ==
    [media_path |-> media_path, decoder |-> decoder,
     frame_generator |-> frame_generator, frame_buffer |-> frame_buffer,
     _state |-> _state, _rate |-> _rate, _volume |-> _volume,
     duration |-> duration,
     current_position |-> current_position, timer |-> timer,
     position_timer |-> position_timer, _duration_sent |-> _duration_sent,
     seek_position |-> seek_position, audio_file |-> audio_file,
     temp_wav |-> temp_wav, extracted |-> extracted,
     audio_stream |-> audio_stream, audio_thread |-> audio_thread,
     audio_playing |-> audio_playing, audio_paused |-> audio_paused,
     _wf |-> _wf, wf_pos |-> wf_pos, callback |-> callback,
     _last_sync_time |-> _last_sync_time,
     clock |-> clock, turn |-> turn, resyncs |-> resyncs,
     streams |-> streams, threads |-> threads,
     playlist |-> playlist, items |-> items, current_index |-> current_index,
     play_mode |-> play_mode, player |-> player, machine |-> machine,
     shown |-> shown, raised |-> raised,
     teardown |-> <<>>,     \* what the handler that is running has torn down
     emitted |-> <<>>,      \* the signals of the handler that is running
     capped |-> FALSE]      \* the handler needs a thread the bound has not

\* The handler has cancelled or released what.
Did(w, what) == [w EXCEPT !.teardown = Append(@, what)]

\* signal.emit(value)
Emit(w, sig, value) == [w EXCEPT !.emitted = Append(@, <<sig, value>>)]

\* The environment's answers to one handler: whether FFdecoder opens the file
\* (openOk), whether ffmpeg extracts its audio (audioOk), at which fetch of a
\* read-ahead loop the decoder raises (errAt; NoErr is beyond every loop),
\* whether a direct read raises (errDirect), whether the decoder object has a
\* frame_generator attribute (hasGen), whether the fast reopen succeeds
\* (fastOk), and the number random.randint draws (rnd).
NoErr == 2 * frame_buffer_size

-----------------------------------------------------------------------------
(* The frame source *)

\* n calls of next(self.frame_generator, None), appending until the source is
\* exhausted or raises (which ends a Python generator for good).
Fetch(g, n, errAt) ==
    LET avail == NFrames(g.path) - g.next
        want == Max(0, Min(n, avail))
        failed == errAt >= 0 /\ errAt < want
        k == IF failed THEN errAt ELSE want
    IN  [frames |-> [i \in 1..k |-> g.next + i - 1],
         gen |-> [g EXCEPT !.next = IF failed THEN NFrames(g.path) ELSE g.next + k],
         raised |-> IF failed THEN <<"read-ahead">> ELSE <<>>]

-----------------------------------------------------------------------------
(* Audio teardown *)

\* self.audio_stream.stop_stream()
StopStream(w) ==
    [w EXCEPT !.streams[w.audio_stream] = "stopped"]

\* self.audio_stream.close(); self.audio_stream = None
CloseStream(w) ==
    Did([w EXCEPT !.streams[w.audio_stream] = "none", !.audio_stream = NoStream],
        "stream")

\* DeffcodePlayer._stop_audio.  The join(1) at its end changes no field: what
\* the joined thread does meanwhile are that thread's own steps.
_stop_audio(w) ==
    LET is_seeking == w.seek_position > 0
        w1 == [w EXCEPT !.audio_playing = FALSE]
        w2 == IF w1.audio_stream = NoStream THEN w1
              ELSE IF ~is_seeking THEN CloseStream(StopStream(w1))
              ELSE [StopStream(w1) EXCEPT !.audio_paused = TRUE]
    IN  IF ~is_seeking /\ w2._wf THEN [w2 EXCEPT !._wf = FALSE] ELSE w2

\* threading.Thread(target=self._play_audio).start(), in the lowest free slot.
FreeSlots(w) ==
    {i \in 1..w.machine.slots : w.threads[i] = "none" /\ w.streams[i] = "none"}

StartAudioThread(w) ==
    IF FreeSlots(w) = {} THEN [w EXCEPT !.capped = TRUE]
    ELSE LET i == CHOOSE j \in FreeSlots(w) : \A k \in FreeSlots(w) : j <= k
         IN  [w EXCEPT !.threads[i] = "start", !.audio_thread = i]

-----------------------------------------------------------------------------
(* Decoder initialisation *)

\* DeffcodePlayer._extract_audio. The WAV is named after the media; without
\* ffmpeg the call raises; else ffmpeg writes the WAV (audioOk) or fails and
\* leaves the temp directory as it was, and self.audio_file is kept when a
\* WAV of that name is there, whichever run left it.
_extract_audio(w, audioOk) ==
    IF ~w.machine.ffmpeg
    THEN [w EXCEPT !.audio_file = "none", !.extracted = "failed"]
    ELSE LET wavs == IF audioOk THEN w.temp_wav \cup {w.media_path}
                     ELSE w.temp_wav
         IN  [w EXCEPT !.temp_wav = wavs,
                       !.extracted = IF audioOk THEN "ok" ELSE "failed",
                       !.audio_file = IF w.media_path \in wavs
                                      THEN w.media_path ELSE "none"]

\* The decoder opened by _init_decoder: at seek_position when one is pending.
OpenDecoder(w) ==
    IF w.seek_position > 0
    THEN [w EXCEPT !.decoder = [path |-> w.media_path, ss |-> w.seek_position],
                   !.current_position = w.seek_position,
                   !.seek_position = 0]
    ELSE [w EXCEPT !.decoder = [path |-> w.media_path, ss |-> 0]]

\* self.frame_generator = self.decoder.generateFrame(), then the buffer is
\* emptied and n frames are read ahead.
Prefill(w, n, errAt) ==
    LET g == [path |-> w.decoder.path, next |-> FrameAt(w.decoder.path, w.decoder.ss)]
        f == Fetch(g, n, errAt)
    IN  [w EXCEPT !.frame_generator = f.gen, !.frame_buffer = f.frames,
                  !.shown = <<>>,
                  !.raised = IF f.raised # <<>> THEN <<"prefill">> ELSE <<>>]

\* _init_decoder from the video information on: an exception there is caught
\* by the handler of the whole method, which returns False; else the duration
\* is stored and announced and the audio extracted.
WithDuration(w, d, env) ==
    IF d.exc # "" THEN <<w, FALSE>>
    ELSE <<_extract_audio(Emit([w EXCEPT !.duration = d.val],
                               "durationChanged", d.val), env.audioOk), TRUE>>
\* _init_decoder once the decoder is open and the buffer filled.
Opened_init(w, env) ==
    WithDuration(w, ComputeDuration(Metadata(w, w.media_path)), env)

\* DeffcodePlayer._init_decoder: <<the world after it, its return value>>.
_init_decoder(w, env) ==
    LET w1 == _stop_audio([w EXCEPT !.decoder = NoDecoder])
    IN  IF ~Exists(w1, w1.media_path) \/ ~env.openOk THEN <<w1, FALSE>>
        ELSE Opened_init(Prefill(OpenDecoder(w1), frame_buffer_size, env.errAt),
                         env)

-----------------------------------------------------------------------------
(* Transport *)

\* self.timer.stop(); self.position_timer.stop()
StopTimers(w) == Did([w EXCEPT !.timer = FALSE, !.position_timer = FALSE], "timers")

\* self.timer.start(); self.position_timer.start()
StartTimers(w) == [w EXCEPT !.timer = TRUE, !.position_timer = TRUE]

\* self._state = s; self.stateChanged.emit(s)
SetState(w, s) == Emit([w EXCEPT !._state = s], "stateChanged", s)

\* setMedia() that opens the decoder at once.
setMedia_Eager(w, content) ==
    LET w1 == SetState([w EXCEPT !.media_path = content], StoppedState)
    IN  IF Exists(w1, content)
        THEN [w1 EXCEPT !.decoder = [path |-> content, ss |-> 0],
                        !.frame_generator = [path |-> content, next |-> 0],
                        !.frame_buffer = <<>>]
        ELSE w1

\* DeffcodePlayer.setMedia
setMedia(w, content) ==
    SetState([w EXCEPT !.media_path = content], StoppedState)

\* stop() that reports position 0 and keeps the field.
ResetPosition_EmitOnly(w) == Emit(w, "positionChanged", 0)

\* self.current_position = 0; self.positionChanged.emit(0)
ResetPosition(w) ==
    Emit([w EXCEPT !.current_position = 0], "positionChanged", 0)

\* if self.decoder: self.decoder.terminate(); self.decoder = None
TerminateDecoder(w) ==
    IF w.decoder = NoDecoder THEN w
    ELSE Did([w EXCEPT !.decoder = NoDecoder], "decoder")

\* stop() that releases the decoder and the audio before it stops the timers.
stop_ReleaseFirst(w) ==
    LET w1 == StopTimers(_stop_audio(TerminateDecoder(w)))
        w3 == [ResetPosition(w1) EXCEPT !._duration_sent = FALSE]
    IN  SetState(w3, StoppedState)

\* DeffcodePlayer.stop
stop(w) ==
    LET w1 == TerminateDecoder(_stop_audio(StopTimers(w)))
        w3 == [ResetPosition(w1) EXCEPT !._duration_sent = FALSE]
    IN  SetState(w3, StoppedState)

\* The audio part of pause(): an active stream is stopped and marked paused.
PauseAudio(w) ==
    IF w.audio_stream # NoStream /\ w.streams[w.audio_stream] = "active"
    THEN [StopStream(w) EXCEPT !.audio_paused = TRUE]
    ELSE w

\* The audio part of play(): resume the paused stream, or stop what is left and
\* start a new _play_audio thread.
PlayAudio(w) ==
    IF w.audio_file = "none" THEN w
    ELSE IF w.audio_paused /\ w.audio_stream # NoStream
    THEN [w EXCEPT !.audio_paused = FALSE, !.streams[w.audio_stream] = "active"]
    ELSE StartAudioThread(_stop_audio(w))

\* play() once the decoder is there: state, duration signal, timers, audio.
StartPlaying(w) ==
    LET w1 == SetState(w, PlayingState)
        w2 == IF w1.duration > 0
              THEN [Emit(w1, "durationChanged", w1.duration) EXCEPT !._duration_sent = TRUE]
              ELSE w1
    IN  PlayAudio(StartTimers(w2))

\* play() that goes on when _init_decoder has failed.
PlayFromStopped_Unchecked(w, env) ==
    StartPlaying([_init_decoder(w, env)[1] EXCEPT !.current_position = 0])

\* play() in Stopped: the decoder is initialised, and nothing more is done when
\* that fails.
PlayFromStopped(w, env) ==
    LET r == _init_decoder(w, env)
    IN  IF ~r[2] THEN r[1]
        ELSE StartPlaying([r[1] EXCEPT !.current_position = 0])

\* play() without its guard against Playing.
play_Restarts(w, env) ==
    IF w._state = StoppedState THEN PlayFromStopped(w, env) ELSE StartPlaying(w)

\* play() that initialises the decoder in Paused too.
play_Reopens(w, env) ==
    IF w._state = PlayingState THEN w ELSE PlayFromStopped(w, env)

\* DeffcodePlayer.play
play(w, env) ==
    IF w._state = PlayingState THEN w
    ELSE IF w._state = StoppedState THEN PlayFromStopped(w, env)
    ELSE StartPlaying(w)

\* pause() that resumes when called in Paused.
pause_Toggle(w) ==
    IF w._state = PlayingState THEN PauseAudio(StopTimers(SetState(w, PausedState)))
    ELSE IF w._state = PausedState THEN StartPlaying(w)
    ELSE w

\* pause() without its guard.
pause_Unguarded(w) ==
    PauseAudio(StopTimers(SetState(w, PausedState)))

\* DeffcodePlayer.pause
pause(w) ==
    IF w._state # PlayingState THEN w
    ELSE PauseAudio(StopTimers(SetState(w, PausedState)))

-----------------------------------------------------------------------------
(* The playlist *)

\* DeffcodePlaylist.setCurrentIndex
setCurrentIndex(w, index, env) ==
    IF 0 <= index /\ index < Len(w.items)
    THEN LET w1 == Emit([w EXCEPT !.current_index = index], "currentIndexChanged", index)
         IN  IF w1.player THEN play(setMedia(stop(w1), w1.items[index + 1]), env)
             ELSE w1
    ELSE w

\* next() that runs off the end of the list in Loop as in Sequential.
NextIndex_NoWrap(w, env) ==
    IF w.play_mode = Random THEN env.rnd % Len(w.items)
    ELSE w.current_index + 1

\* The index DeffcodePlaylist.next selects (Len(items): it returns instead).
NextIndex(w, env) ==
    IF w.play_mode = Sequential
    THEN w.current_index + 1
    ELSE IF w.play_mode = Random
    THEN env.rnd % Len(w.items)
    ELSE (w.current_index + 1) % Len(w.items)

\* DeffcodePlaylist.next
playlist_next(w, env) ==
    IF w.items = <<>> \/ w.play_mode = CurrentItemOnce THEN w
    ELSE IF w.play_mode = CurrentItemInLoop
    THEN IF w.current_index >= 0 /\ w.player
         THEN play(setMedia(stop(w), w.items[w.current_index + 1]), env)
         ELSE w
    ELSE setCurrentIndex(w, NextIndex(w, env), env)

-----------------------------------------------------------------------------
(* The two ticks *)

\* The guard the frame tick and the refill share.
CanDecode(w) ==
    w.decoder # NoDecoder /\ w.frame_generator # NoGen /\ w._state = PlayingState

\* The most frames one refill reads.
FillBatch == 5

\* A refill that reads its batch whatever the buffer holds.
_fill_frame_buffer_NoRoomCheck(w, errAt) ==
    IF ~CanDecode(w) THEN w
    ELSE LET f == Fetch(w.frame_generator, FillBatch, errAt)
         IN  [w EXCEPT !.frame_generator = f.gen,
                       !.frame_buffer = w.frame_buffer \o f.frames]

\* DeffcodePlayer._fill_frame_buffer
_fill_frame_buffer(w, errAt) ==
    IF ~CanDecode(w) THEN w
    ELSE LET frames_to_fetch == frame_buffer_size - Len(w.frame_buffer)
         IN  IF frames_to_fetch <= 0 THEN w
             ELSE LET f == Fetch(w.frame_generator, Min(frames_to_fetch, FillBatch), errAt)
                  IN  [w EXCEPT !.frame_generator = f.gen,
                                !.frame_buffer = w.frame_buffer \o f.frames,
                                !.raised = @ \o f.raised]

\* The frame found: self.frameChanged.emit(q_image), then the refill.
Deliver(w, frame, errAt) ==
    _fill_frame_buffer(Emit([w EXCEPT !.shown = Append(@, frame)],
                            "frameChanged", frame), errAt)

\* No frame is left: self.stop(), then self.playlist.next() when one is set.
EndOfStream(w, env) ==
    IF w.playlist THEN playlist_next(stop(w), env) ELSE stop(w)

\* A frame tick that reads the generator before it looks into the buffer.
_update_frame_GeneratorFirst(w, env) ==
    IF ~CanDecode(w) THEN w
    ELSE LET g == w.frame_generator
         IN  IF g.next < NFrames(g.path)
             THEN Deliver([w EXCEPT !.frame_generator.next = g.next + 1], g.next, env.errAt)
             ELSE IF w.frame_buffer # <<>>
             THEN Deliver([w EXCEPT !.frame_buffer = Tail(@)], Head(w.frame_buffer), env.errAt)
             ELSE EndOfStream(w, env)

\* DeffcodePlayer._update_frame
_update_frame(w, env) ==
    IF ~CanDecode(w) THEN w
    ELSE IF w.frame_buffer # <<>>
    THEN Deliver([w EXCEPT !.frame_buffer = Tail(@)], Head(w.frame_buffer), env.errAt)
    ELSE LET g == w.frame_generator
         IN  IF g.next >= NFrames(g.path) THEN EndOfStream(w, env)
             ELSE IF env.errDirect
             THEN stop([w EXCEPT !.frame_generator.next = NFrames(g.path),
                                 !.raised = Append(@, "fetch")])
             ELSE Deliver([w EXCEPT !.frame_generator.next = g.next + 1], g.next, env.errAt)

\* int(100 * self._rate), the rate being kept in percent.
PositionStep(w) == (PositionStepMs * w._rate) \div 100

\* The clamp of _update_position.
ClampToDuration(w) ==
    IF w.current_position > w.duration
    THEN [w EXCEPT !.current_position = w.duration] ELSE w

\* A position tick that does not look at the state.
_update_position_AnyState(w) ==
    IF w.duration <= 0 THEN w
    ELSE Emit(ClampToDuration([w EXCEPT !.current_position = @ + PositionStep(w)]),
              "positionChanged", w.current_position)

\* DeffcodePlayer._update_position
_update_position(w) ==
    IF w._state # PlayingState \/ w.duration <= 0 THEN w
    ELSE LET w1 == ClampToDuration([w EXCEPT !.current_position = @ + PositionStep(w)])
             w2 == Emit(w1, "positionChanged", w1.current_position)
         IN  IF ~w2._duration_sent
             THEN [Emit(w2, "durationChanged", w2.duration) EXCEPT !._duration_sent = TRUE]
             ELSE w2

-----------------------------------------------------------------------------
(* Seek *)

\* The clamp of setPosition.
ClampSeek(w, position) ==
    IF position < 0 THEN 0
    ELSE IF position > w.duration THEN w.duration
    ELSE position

\* self.audio_stream and self.audio_stream.is_active()
AudioActive(w) ==
    w.audio_stream # NoStream /\ w.streams[w.audio_stream] = "active"

\* After a reopen while playing: state, timers, and the paused stream resumed
\* or, when no audio thread is alive, a new one started.
ResumeAfterFastSeek(w, audio_was_active) ==
    LET w1 == StartTimers(SetState(w, PlayingState))
    IN  IF w1.audio_file = "none" THEN w1
        ELSE IF audio_was_active /\ w1.audio_stream # NoStream /\ w1.audio_paused
        THEN [w1 EXCEPT !.audio_paused = FALSE, !.streams[w1.audio_stream] = "active"]
        ELSE IF w1.audio_thread = NoThread \/ w1.threads[w1.audio_thread] = "none"
        THEN StartAudioThread(w1)
        ELSE w1

\* After a full re-init while playing: state, timers, always a new audio thread.
ResumeAfterReinit(w) ==
    LET w1 == StartTimers(SetState(w, PlayingState))
    IN  IF w1.audio_file = "none" THEN w1 ELSE StartAudioThread(w1)

\* The full re-init of setPosition (its fallback and its else branch).
SeekByReinit(w, was_playing, env) ==
    LET r == _init_decoder(w, env)
    IN  IF r[2] /\ was_playing THEN ResumeAfterReinit(r[1]) ELSE r[1]

\* The fast seek of setPosition: the decoder reopened at the offset, twice the
\* buffer read ahead.
FastSeek(w, position, was_playing, audio_was_active, env) ==
    LET w1 == [w EXCEPT !.decoder = [path |-> w.media_path, ss |-> position]]
        w2 == Prefill(w1, frame_buffer_size * 2, env.errAt)
    IN  IF was_playing THEN ResumeAfterFastSeek(w2, audio_was_active) ELSE w2

\* setPosition() that stores the target for the audio only.
StoreSeek_SeekOnly(w, position) ==
    Emit([w EXCEPT !.seek_position = position], "positionChanged", position)

\* self.current_position = position; self.seek_position = position; emit
StoreSeek(w, position) ==
    Emit([w EXCEPT !.current_position = position, !.seek_position = position],
         "positionChanged", position)

\* DeffcodePlayer.setPosition
setPosition(w, pos, env) ==
    IF w.decoder = NoDecoder THEN w
    ELSE LET position == ClampSeek(w, pos)
             was_playing == w._state = PlayingState
             w1 == StoreSeek(StopTimers(w), position)
         IN  IF env.hasGen
             THEN LET audio_was_active == AudioActive(w1)
                      w2 == IF audio_was_active
                            THEN [StopStream(w1) EXCEPT !.audio_paused = TRUE]
                            ELSE w1
                  IN  IF env.fastOk /\ Exists(w2, w2.media_path)
                      THEN FastSeek(w2, position, was_playing, audio_was_active, env)
                      ELSE SeekByReinit(w2, was_playing, env)
             ELSE SeekByReinit(w1, was_playing, env)

\* setVolume() that stores what it is given.
setVolume_Unclamped(w, volume) == [w EXCEPT !._volume = volume]

\* DeffcodePlayer.setVolume
setVolume(w, volume) ==
    [w EXCEPT !._volume = Max(MinVolume, Min(MaxVolume, volume))]

\* DeffcodePlayer.setPlaybackRate
setPlaybackRate(w, rate) == [w EXCEPT !._rate = rate]


-----------------------------------------------------------------------------
(* The audio thread and the audio callback *)

\* The loop condition of _play_audio.
AudioLoopCondition(w) ==
    AudioActive(w) /\ w.audio_playing /\ ~w.audio_paused

\* _play_audio up to its wait loop: without an audio file it returns; else it
\* opens and starts its stream, or fails and runs _stop_audio.
_play_audio_open(w, i, ok) ==
    IF w.audio_file = "none" THEN [w EXCEPT !.threads[i] = "none"]
    ELSE IF ok
    THEN [w EXCEPT !.streams[i] = "active", !.audio_stream = i,
                   !.audio_playing = TRUE, !.audio_paused = FALSE,
                   !.threads[i] = "loop"]
    ELSE [_stop_audio(w) EXCEPT !.threads[i] = "none"]

\* The drift monitor of the wait loop asks for a resync: the audio position and
\* the wall clock that decide it belong to the environment.
_play_audio_resync(w) == [w EXCEPT !.seek_position = w.current_position]

\* _play_audio after its wait loop: whatever stream self.audio_stream names is
\* stopped and closed.
_play_audio_exit(w, i) ==
    LET w1 == IF w.audio_stream # NoStream THEN CloseStream(StopStream(w)) ELSE w
    IN  [w1 EXCEPT !.threads[i] = "none"]

\* The callback's reading: at the end of the data self._wf is closed.
ReadFrames(w, eof) == IF eof THEN [w EXCEPT !._wf = FALSE] ELSE w

\* DeffcodePlayer._audio_callback.  The file position is not kept: eof says
\* whether readframes found the data at its end.
_audio_callback(w, eof) ==
    IF ~w._wf
    THEN IF w.audio_file = "none" THEN w
         ELSE ReadFrames([w EXCEPT !._wf = TRUE, !.seek_position = 0], eof)
    ELSE IF w.seek_position > 0
    THEN ReadFrames([w EXCEPT !.seek_position = 0], eof)
    ELSE ReadFrames(w, eof)

-----------------------------------------------------------------------------
(* The audio clock: the cursor of self._wf against the position of the video *)

\* The length of the extracted audio, in ms.
AudioLength(w) == MediaDuration(w.audio_file)

\* An offset as setpos is given it: one past the data becomes the last frame.
ClampCursor(w, ms) ==
    IF ms >= AudioLength(w) THEN Max(0, AudioLength(w) - 1) ELSE ms

\* The history keeps the last two corrections.
Correction(w, drift, by) ==
    LET all == Append(w.resyncs, [at |-> w.clock, drift |-> drift, by |-> by])
    IN  IF Len(all) > 2 THEN Tail(all) ELSE all

\* readframes on the cursor at p: a period of audio, or the end of the data.
ReadAt(w, p) ==
    IF p >= AudioLength(w)
    THEN [pos |-> p, eof |-> TRUE, drift |-> 0]
    ELSE [pos |-> Min(p + PeriodMs, AudioLength(w)), eof |-> FALSE, drift |-> 0]

\* What _audio_callback does to the cursor: a fresh file starts at the pending
\* seek offset; a pending offset further than the tolerance from the cursor
\* moves it, and so does a drift from the video above CallbackDriftMs, and the
\* callback then returns without reading.
CursorStep(w) ==
    IF ~w._wf
    THEN ReadAt(w, IF w.seek_position > 0
                   THEN ClampCursor(w, w.seek_position) ELSE 0)
    ELSE IF w.seek_position > 0
    THEN LET expected_pos == ClampCursor(w, w.seek_position)
         IN  IF Abs(w.wf_pos - expected_pos) > SeekToleranceMs
             THEN [pos |-> expected_pos, eof |-> FALSE, drift |-> 0]
             ELSE ReadAt(w, w.wf_pos)
    ELSE IF w._state = PlayingState
    THEN LET sync_diff == Abs(w.wf_pos - w.current_position)
         IN  IF sync_diff > CallbackDriftMs
             THEN [pos |-> ClampCursor(w, w.current_position), eof |-> FALSE,
                   drift |-> sync_diff]
             ELSE ReadAt(w, w.wf_pos)
    ELSE ReadAt(w, w.wf_pos)

\* DeffcodePlayer._audio_callback with the file position kept.
_audio_callback_cursor(w) ==
    IF w.audio_file = "none" THEN w
    ELSE LET c == CursorStep(w)
         IN  [_audio_callback(w, c.eof) EXCEPT
                 !.wf_pos = c.pos,
                 !.resyncs = IF c.drift > 0
                             THEN Correction(w, c.drift, "_audio_callback")
                             ELSE @]

\* _audio_callback on an open file with a pending offset, as far as its
\* reading: the cursor and the offset expected are in its locals.
_audio_callback_read(w) ==
    [w EXCEPT !.callback = [expected_pos |-> ClampCursor(w, w.seek_position),
                            current_audio_pos |-> w.wf_pos]]

\* readframes where the cursor is.
ReadOn(w, c) == [ReadFrames(w, c.eof) EXCEPT !.wf_pos = c.pos]

\* _audio_callback on an open file with a pending offset, from the test of the
\* tolerance on: beyond it the cursor is moved and the mark cleared, with no
\* reading; within it the mark is cleared and the callback reads on. On a
\* file closed meanwhile setpos and readframes raise, and the handler of the
\* exception finds nothing to close.
_audio_callback_write(w) ==
    IF Abs(w.callback.current_audio_pos - w.callback.expected_pos)
           > SeekToleranceMs
    THEN IF w._wf
         THEN [w EXCEPT !.wf_pos = w.callback.expected_pos,
                        !.seek_position = 0, !.callback = NotInCallback]
         ELSE [w EXCEPT !.callback = NotInCallback]
    ELSE IF w._wf
         THEN ReadOn([w EXCEPT !.seek_position = 0,
                               !.callback = NotInCallback],
                     ReadAt(w, w.wf_pos))
         ELSE [w EXCEPT !.seek_position = 0, !.callback = NotInCallback]

\* hasattr(self, '_last_sync_time'): __init__ sets the attribute.
HasLastSyncTime == TRUE

\* One round of the drift monitor in the wait loop of _play_audio. Its test
\* reads "(drift > HardDriftMs and no _last_sync_time) or (more than
\* MinResyncGapMs since _last_sync_time)".
_play_audio_monitor(w) ==
    IF w._state = PlayingState /\ w._wf
    THEN LET sync_diff == Abs(w.wf_pos - w.current_position)
         IN  IF /\ sync_diff > SoftDriftMs
                /\ \/ sync_diff > HardDriftMs /\ ~HasLastSyncTime
                   \/ w.clock - w._last_sync_time > MinResyncGapMs
             THEN [_play_audio_resync(w) EXCEPT
                      !._last_sync_time = w.clock,
                      !.resyncs = Correction(w, sync_diff, "_play_audio")]
             ELSE w
    ELSE w

-----------------------------------------------------------------------------
(* The state machine *)

\* On a machine without faults the decoder opens every file it has, no fetch
\* raises, ffmpeg extracts the audio and the fast seek succeeds.
ErrPoints == IF machine.faults THEN (0..MaxErrAt) \cup {NoErr} ELSE {NoErr}
Faults == IF machine.faults THEN BOOLEAN ELSE {FALSE}

\* What a handler asks of its environment: does the decoder open (openOk), does
\* ffmpeg extract the audio (audioOk), which read-ahead fetch raises (errAt),
\* does the fetch of _update_frame raise (errDirect), has the decoder a
\* frame_generator attribute (hasGen), does the fast seek succeed (fastOk), what
\* does random.randint return (rnd). Of the environments that differ only in an
\* answer nobody asks for, one is tried: a failed open asks for no audio and no
\* frame, a fast seek opens no audio, and a machine without ffmpeg extracts none.
AudioAnswers ==
    IF ~machine.ffmpeg THEN {FALSE}
    ELSE IF machine.faults THEN BOOLEAN ELSE {TRUE}

\* The decoder does not open,
FailedOpen(hasGen, errDirect, rnd) ==
    IF machine.faults
    THEN [openOk : {FALSE}, audioOk : {FALSE}, errAt : {NoErr},
          errDirect : errDirect, hasGen : hasGen, fastOk : {FALSE}, rnd : rnd]
    ELSE {}
\* or opens.
Opened(hasGen, errDirect, rnd) ==
    [openOk : {TRUE}, audioOk : AudioAnswers, errAt : ErrPoints,
     errDirect : errDirect, hasGen : hasGen, fastOk : {FALSE}, rnd : rnd]

\* The environments of a handler that only opens a decoder,
OpenEnv == FailedOpen({FALSE}, {FALSE}, {0}) \cup Opened({FALSE}, {FALSE}, {0})
\* of a seek: the fast seek on the open decoder, or _init_decoder,
SeekEnv ==
    [openOk : {FALSE}, audioOk : {FALSE}, errAt : ErrPoints, errDirect : {FALSE},
     hasGen : {TRUE}, fastOk : {TRUE}, rnd : {0}]
    \cup FailedOpen(BOOLEAN, {FALSE}, {0})
    \cup (IF machine.faults THEN Opened(BOOLEAN, {FALSE}, {0}) ELSE {})
\* of a frame tick with no playlist attached,
TickEnv ==
    [openOk : {FALSE}, audioOk : {FALSE}, errAt : ErrPoints, errDirect : BOOLEAN,
     hasGen : {FALSE}, fastOk : {FALSE}, rnd : {0}]
\* and of a frame tick that may start the next item of the playlist.
TickPlayEnv ==
    FailedOpen({FALSE}, BOOLEAN, 0..(MaxItems - 1))
    \cup Opened({FALSE}, BOOLEAN, 0..(MaxItems - 1))

\* of a call of the playlist that may start an item,
NextEnv ==
    FailedOpen({FALSE}, {FALSE}, 0..(MaxItems - 1))
    \cup Opened({FALSE}, {FALSE}, 0..(MaxItems - 1))

\* The one environment of a call that asks the environment nothing.
IdleEnv ==
    [openOk : {FALSE}, audioOk : {FALSE}, errAt : {NoErr}, errDirect : {FALSE},
     hasGen : {FALSE}, fastOk : {FALSE}, rnd : {0}]

\* Pairs of consecutive handlers of which the history keeps the first.
Tracked == {<<"pause", "play">>, <<"pause", "pause">>, <<"stop", "stop">>,
            <<"setPosition", "_update_frame">>,
            <<"setPosition", "_update_position">>}

\* The handlers of the transport API: the history keeps the state each was
\* called in.
Transport == {"setMedia", "play", "pause", "stop", "setPosition"}

Op(name, arg) ==
    [op |-> name, arg |-> arg,
     from |-> IF name \in Transport THEN _state ELSE StoppedState,
     prev |-> IF <<lastOp.op, name>> \in Tracked THEN lastOp.op ELSE "-",
     prevArg |-> IF <<lastOp.op, name>> \in Tracked THEN lastOp.arg ELSE Null]

Snapshot ==
    [decoder |-> decoder, frame_generator |-> frame_generator,
     frame_buffer |-> frame_buffer, current_position |-> current_position]

\* The calls of the user that start, stop or move the playback.
UserCalls ==
    {"setMedia", "play", "pause", "stop", "setPosition", "setPlaybackRate"}

\* The step of a handler that takes the world to w.
Apply(w, name, arg) ==
    /\ ~w.capped
    /\ media_path' = w.media_path
    /\ decoder' = w.decoder
    /\ frame_generator' = w.frame_generator
    /\ frame_buffer' = w.frame_buffer
    /\ _state' = w._state
    /\ _rate' = w._rate
    /\ _volume' = w._volume
    /\ duration' = w.duration
    /\ current_position' = w.current_position
    /\ timer' = w.timer
    /\ position_timer' = w.position_timer
    /\ _duration_sent' = w._duration_sent
    /\ seek_position' = w.seek_position
    /\ audio_file' = w.audio_file
    /\ temp_wav' = w.temp_wav
    /\ extracted' = w.extracted
    /\ audio_stream' = w.audio_stream
    /\ audio_thread' = w.audio_thread
    /\ audio_playing' = w.audio_playing
    /\ audio_paused' = w.audio_paused
    /\ _wf' = w._wf
    /\ wf_pos' = IF w._wf THEN w.wf_pos ELSE 0
    /\ callback' = w.callback
    /\ _last_sync_time' = w._last_sync_time
    /\ clock' = w.clock
    /\ turn' = w.turn
    /\ resyncs' = IF name \in UserCalls THEN <<>> ELSE w.resyncs
    /\ streams' = w.streams
    /\ threads' = w.threads
    /\ playlist' = w.playlist
    /\ items' = w.items
    /\ current_index' = w.current_index
    /\ play_mode' = w.play_mode
    /\ player' = w.player
    /\ machine' = w.machine
    /\ emitted' = w.emitted
    /\ teardown' = w.teardown
    /\ shown' = IF w.decoder = NoDecoder THEN <<>> ELSE w.shown
    /\ raised' = IF w.decoder = NoDecoder THEN <<>> ELSE w.raised
    /\ pending' = IF w.seek_position = 0 THEN "none"
                  ELSE IF w.seek_position # seek_position \/ name = "setPosition" THEN name
                  ELSE pending
    /\ lastOp' = Op(name, arg)
    /\ before' = IF name = "pause" THEN Snapshot
                 ELSE IF name = "play" /\ lastOp.op = "pause" THEN before
                 ELSE Null

InitOn(machines) ==
    /\ media_path = "none"
    /\ decoder = NoDecoder
    /\ frame_generator = NoGen
    /\ frame_buffer = <<>>
    /\ _state = StoppedState
    /\ _rate = 100
    /\ _volume = DefaultVolume
    /\ duration = 0
    /\ current_position = 0
    /\ timer = FALSE
    /\ position_timer = FALSE
    /\ _duration_sent = FALSE
    /\ seek_position = 0
    /\ audio_file = "none"
    /\ temp_wav = {}
    /\ extracted = "never"
    /\ audio_stream = NoStream
    /\ audio_thread = NoThread
    /\ audio_playing = FALSE
    /\ audio_paused = FALSE
    /\ _wf = FALSE
    /\ wf_pos = 0
    /\ callback = NotInCallback
    /\ _last_sync_time = 0
    /\ clock = StartTime
    /\ turn = "position"
    /\ resyncs = <<>>
    /\ streams = [i \in ThreadIds |-> "none"]
    /\ threads = [i \in ThreadIds |-> "none"]
    /\ playlist = FALSE
    /\ items = <<>>
    /\ current_index = -1
    /\ play_mode = Sequential
    /\ player = FALSE
    /\ machine \in machines
    /\ lastOp = [op |-> "init", arg |-> Null, from |-> StoppedState,
                 prev |-> "-", prevArg |-> Null]
    /\ before = Null
    /\ shown = <<>>
    /\ raised = <<>>
    /\ pending = "none"
    /\ emitted = <<>>
    /\ teardown = <<>>

Init == InitOn(Machines)

SetMedia == \E p \in machine.paths : Apply(setMedia(World, p), "setMedia", p)

Play ==
    \E e \in IF _state = StoppedState THEN OpenEnv ELSE IdleEnv : Apply(play(World, e), "play", Null)

Pause == Apply(pause(World), "pause", Null)

Stop == Apply(stop(World), "stop", Null)

SetPosition ==
    \E p \in machine.targets, e \in IF decoder = NoDecoder THEN IdleEnv ELSE SeekEnv :
        Apply(setPosition(World, p, e), "setPosition",
              [p |-> p, valid |-> 0 <= p /\ p <= duration,
               open |-> decoder # NoDecoder])

SetPlaybackRate ==
    \E r \in machine.rates \ {_rate} : Apply(setPlaybackRate(World, r), "setPlaybackRate", r)

SetVolume == \E v \in Volumes : Apply(setVolume(World, v), "setVolume", v)

\* The frame timer fires.
UpdateFrame ==
    /\ timer
    /\ \E e \in IF playlist THEN TickPlayEnv ELSE TickEnv : Apply(_update_frame(World, e), "_update_frame", Null)

\* The position timer fires.
UpdatePosition ==
    /\ position_timer
    /\ Apply(_update_position(World), "_update_position", Null)

\* DeffcodePlayer.setPlaylist
SetPlaylist ==
    /\ ~playlist
    /\ Apply([World EXCEPT !.playlist = TRUE], "setPlaylist", Null)

\* DeffcodePlaylist.setPlayer
SetPlayer ==
    /\ ~player
    /\ Apply([World EXCEPT !.player = TRUE], "setPlayer", Null)

\* DeffcodePlaylist.addMedia
AddMedia ==
    /\ Len(items) < MaxItems
    /\ \E p \in machine.paths :
           Apply([World EXCEPT !.items = Append(@, p)], "addMedia", p)

\* DeffcodePlaylist.clear
Clear ==
    Apply([World EXCEPT !.items = <<>>, !.current_index = -1], "clear", Null)

\* DeffcodePlaylist.setPlaybackMode
SetPlaybackMode ==
    \E m \in {Sequential, Random, CurrentItemOnce, CurrentItemInLoop, Loop} :
        /\ m # play_mode
        /\ Apply([World EXCEPT !.play_mode = m], "setPlaybackMode", m)

\* DeffcodePlaylist.setCurrentIndex, with indexes on both sides of the list.
SetCurrentIndex ==
    \E i \in -1..MaxItems, e \in OpenEnv :
        Apply(setCurrentIndex(World, i, e), "setCurrentIndex", i)

\* DeffcodePlaylist.next
PlaylistNext ==
    \E e \in NextEnv : Apply(playlist_next(World, e), "next", Null)

\* A started _play_audio thread reaches its wait loop, or ends.
PlayAudioOpen ==
    \E i \in ThreadIds, ok \in {TRUE} \cup {~f : f \in Faults} :
        /\ threads[i] = "start"
        /\ Apply(_play_audio_open(World, i, ok), "_play_audio", Null)

\* The wait loop's monitor asks for a resync.
PlayAudioResync ==
    \E i \in ThreadIds :
        /\ threads[i] = "loop"
        /\ AudioLoopCondition(World)
        /\ _state = PlayingState /\ _wf
        /\ seek_position # current_position
        /\ Apply(_play_audio_resync(World), "_play_audio", Null)

\* The wait loop ends.
PlayAudioExit ==
    \E i \in ThreadIds :
        /\ threads[i] = "loop"
        /\ ~AudioLoopCondition(World)
        /\ Apply(_play_audio_exit(World, i), "_play_audio", Null)

\* PortAudio calls the callback of an active stream.
AudioCallback ==
    \E i \in ThreadIds, eof \in BOOLEAN :
        /\ streams[i] = "active"
        /\ Apply(_audio_callback(World, eof), "_audio_callback", Null)

\* The periodic callers take turns within a period of PeriodMs: the position
\* timer, the audio callback, the drift monitor, and then the period ends.
Turn(w, next) == [w EXCEPT !.turn = next]

\* The position timer's turn.
SyncPosition ==
    /\ turn = "position"
    /\ Apply(Turn(IF position_timer THEN _update_position(World) ELSE World,
                  "callback"), "_update_position", Null)

\* The callback's turn: an active stream plays a period of audio.
SyncCallback ==
    /\ turn = "callback"
    /\ Apply(Turn(IF \E i \in ThreadIds : streams[i] = "active"
                  THEN _audio_callback_cursor(World) ELSE World,
                  "monitor"), "_audio_callback", Null)

\* The monitor's turn: a thread in its wait loop looks at the drift.
SyncMonitor ==
    /\ turn = "monitor"
    /\ Apply(Turn(IF /\ \E i \in ThreadIds : threads[i] = "loop"
                     /\ AudioLoopCondition(World)
                  THEN _play_audio_monitor(World) ELSE World,
                  "advance"), "_play_audio", Null)

\* The period ends.
Advance ==
    /\ turn = "advance"
    /\ clock < StartTime + MaxElapsed
    /\ Apply([World EXCEPT !.clock = @ + PeriodMs, !.turn = "position"],
             "sleep", Null)

\* The player with no playlist attached.
Next ==
    \/ SetMedia \/ Play \/ Pause \/ Stop \/ SetPosition \/ SetPlaybackRate
    \/ UpdateFrame \/ UpdatePosition
    \/ PlayAudioOpen \/ PlayAudioResync \/ PlayAudioExit \/ AudioCallback

Spec == Init /\ [][Next]_vars

\* The frame path: the player without audio on a file longer than the buffer.
InitFrames == InitOn(FrameMachines)

NextFrames ==
    \/ SetMedia \/ Play \/ Pause \/ Stop \/ SetPosition
    \/ UpdateFrame \/ UpdatePosition

SpecFrames == InitFrames /\ [][NextFrames]_vars

\* The audio clock: the player with audio, its periodic callers in step with
\* the wall clock. The frame timer, which touches neither the cursor nor the
\* position, is left out: the media outlasts the time followed.
InitSync == InitOn(SyncMachines)

\* The user calls between two periods, once.
SyncUser ==
    /\ turn = "position"
    /\ lastOp.op \in {"init", "sleep"}
    /\ (SetMedia \/ Play \/ SetPosition \/ SetPlaybackRate)

NextSync ==
    \/ SyncUser
    \/ PlayAudioOpen \/ PlayAudioExit
    \/ SyncPosition \/ SyncCallback \/ SyncMonitor \/ Advance

SpecSync == InitSync /\ [][NextSync]_vars

\* The duration: a file of every kind of metadata is opened by play().
InitDuration == InitOn(DurationMachines)

NextDuration == SetMedia \/ Play \/ Stop

SpecDuration == InitDuration /\ [][NextDuration]_vars

\* The audio threads: transport calls of the user and the steps of the
\* _play_audio threads and of PortAudio, with no faults.
InitThreads == InitOn(ThreadMachines)

NextThreads ==
    \/ SetMedia \/ Play \/ Pause \/ Stop \/ SetPosition
    \/ PlayAudioOpen \/ PlayAudioExit \/ AudioCallback

SpecThreads == InitThreads /\ [][NextThreads]_vars

\* The seeks: the user seeks while PortAudio runs the callback on its own
\* thread, and a callback with a pending offset takes two steps, its reading
\* and its writing, between which the user may call.
InitSeek == InitOn(SeekMachines)

\* A callback with no pending offset to look at, in one step.
CallbackRuns ==
    /\ \E i \in ThreadIds : streams[i] = "active"
    /\ callback = NotInCallback
    /\ ~(_wf /\ seek_position > 0)
    /\ Apply(_audio_callback_cursor(World), "_audio_callback", Null)

CallbackReads ==
    /\ \E i \in ThreadIds : streams[i] = "active"
    /\ callback = NotInCallback
    /\ _wf /\ seek_position > 0
    /\ Apply(_audio_callback_read(World), "_audio_callback", Null)

\* stop_stream() returns when the callback has: a callback that has read
\* goes on to write whatever has become of the stream.
CallbackWrites ==
    /\ callback # NotInCallback
    /\ Apply(_audio_callback_write(World), "_audio_callback", Null)

NextSeek ==
    \/ SetMedia \/ Play \/ Pause \/ SetPosition
    \/ PlayAudioOpen \/ PlayAudioExit
    \/ CallbackRuns \/ CallbackReads \/ CallbackWrites

SpecSeek == InitSeek /\ [][NextSeek]_vars

\* The volume control, which no other handler writes.
NextVolume == SetVolume

SpecVolume == Init /\ [][NextVolume]_vars


\* The player driven through its playlist, on the machine of the playlist.
InitPlaylist == InitOn(PlaylistMachines)

NextPlaylist ==
    \/ SetPlaylist \/ SetPlayer \/ AddMedia \/ Clear \/ SetPlaybackMode
    \/ SetCurrentIndex \/ PlaylistNext
    \/ UpdateFrame \/ UpdatePosition

SpecPlaylist == InitPlaylist /\ [][NextPlaylist]_vars

-----------------------------------------------------------------------------
(* Properties *)

Range(f) == {f[i] : i \in DOMAIN f}

\* The signals named sig among those the last handler emitted.
Emitted(sig) == {e \in Range(emitted) : e[1] = sig}

\* C1: stop(), called in any state, returns with state Stopped, position 0,
\* both timers inactive and no decoder.
C1_StopResets ==
    lastOp.op = "stop" =>
        /\ _state = StoppedState
        /\ current_position = 0
        /\ ~timer /\ ~position_timer
        /\ decoder = NoDecoder

\* stop() has run while playing, some way into the media.
C1_Witness ==
    /\ lastOp.op = "stop" /\ lastOp.from = PlayingState
    /\ frame_generator.next > 0 /\ duration > 0

\* C2: pause() called in Stopped or Paused changes no field and emits no
\* signal; called in Playing it sets the state to Paused and stops both timers
\* and leaves decoder, frame buffer and position as they were.
C2_PauseOnlyFromPlaying ==
    [][lastOp'.op = "pause" =>
         IF _state # PlayingState
         THEN UNCHANGED progVars /\ emitted' = <<>>
         ELSE /\ _state' = PausedState
              /\ ~timer' /\ ~position_timer'
              /\ UNCHANGED <<decoder, frame_buffer, current_position>>]_vars

\* pause() has run while playing, with frames buffered and the clock advanced.
C2_Witness ==
    /\ lastOp.op = "pause" /\ lastOp.from = PlayingState
    /\ _state = PausedState /\ frame_buffer # <<>> /\ current_position > 0

\* C3: play() called while Playing changes no field, starts no audio thread
\* and emits no signal.
C3_PlayWhilePlaying ==
    [][lastOp'.op = "play" /\ _state = PlayingState =>
         UNCHANGED progVars /\ emitted' = <<>>]_vars

\* play() has run while playing.
C3_Witness ==
    /\ lastOp.op = "play" /\ lastOp.from = PlayingState
    /\ _state = PlayingState /\ decoder # NoDecoder

\* C4: play() in Stopped with a path that is not a readable file, or with a
\* decoder that does not open, leaves the state Stopped, starts no timer and
\* emits neither frameChanged nor durationChanged.
C4_PlayFailsQuietly ==
    [][/\ lastOp'.op = "play" /\ _state = StoppedState
       /\ (media_path \notin machine.files \/ decoder' = NoDecoder)
       => /\ _state' = StoppedState
          /\ (timer' => timer) /\ (position_timer' => position_timer)
          /\ Emitted("frameChanged")' = {}
          /\ Emitted("durationChanged")' = {}]_vars

\* play() has run in Stopped on the path of no file.
C4_Witness ==
    /\ lastOp.op = "play" /\ lastOp.from = StoppedState
    /\ media_path = "bad" /\ decoder = NoDecoder /\ _state = StoppedState

\* C5: play() in Paused right after pause() resumes: the state is Playing,
\* both timers run, and decoder, frame generator, frame buffer and position
\* are those pause() found.
C5_ResumeKeepsDecoder ==
    lastOp.op = "play" /\ lastOp.prev = "pause" /\ lastOp.from = PausedState =>
        /\ _state = PlayingState
        /\ timer /\ position_timer
        /\ Snapshot = before

\* pause() then play() have run, part of the media played and frames buffered.
C5_Witness ==
    /\ lastOp.op = "play" /\ lastOp.prev = "pause" /\ lastOp.from = PausedState
    /\ frame_buffer # <<>> /\ frame_generator.next > frame_buffer_size
    /\ current_position > 0

\* C6: a second pause() right after a pause(), and a second stop() right after
\* a stop(), change no field.
C6_Idempotent ==
    [][/\ lastOp.op = "pause" /\ lastOp'.op = "pause" => UNCHANGED progVars
       /\ lastOp.op = "stop" /\ lastOp'.op = "stop" => UNCHANGED progVars]_vars

\* pause() has run twice in a row, the first time while playing.
C6_Witness ==
    /\ lastOp.op = "pause" /\ lastOp.prev = "pause"
    /\ _state = PausedState /\ before # Null /\ decoder # NoDecoder

\* C7: setMedia() in any state leaves the state Stopped, opens no decoder and
\* does not touch frame generator and frame buffer.
C7_SetMediaIsLazy ==
    [][lastOp'.op = "setMedia" =>
         /\ _state' = StoppedState
         /\ UNCHANGED <<decoder, frame_generator, frame_buffer>>]_vars

\* setMedia() has run while playing.
C7_Witness ==
    /\ lastOp.op = "setMedia" /\ lastOp.from = PlayingState
    /\ _state = StoppedState /\ media_path # decoder.path

\* C8: right after setMedia(), position() is 0.
C8_SetMediaClearsPosition ==
    lastOp.op = "setMedia" => current_position = 0

\* C9: in every reachable state 0 <= current_position <= duration.
C9_PositionWithinDuration ==
    0 <= current_position /\ current_position <= duration

\* C10, as claimed: after setPosition(p) with 0 <= p <= duration and one frame
\* tick, position() is within one frame interval of p.
C10_SeekThenTick ==
    [][/\ lastOp.op = "setPosition" /\ lastOp.arg.valid
       /\ lastOp'.op = "_update_frame"
       => Abs(current_position' - lastOp.arg.p) <= FrameIntervalMs]_vars

\* C10, amended: setPosition(p) with 0 <= p <= duration and a decoder open
\* leaves position() = p; a frame tick right after it leaves it p, or finds no
\* frame left, stops the player and leaves it 0.
C10_SeekSetsPosition ==
    [][/\ lastOp'.op = "setPosition" /\ lastOp'.arg.valid /\ lastOp'.arg.open
          => current_position' = lastOp'.arg.p
       /\ lastOp.op = "setPosition" /\ lastOp.arg.valid /\ lastOp.arg.open
          /\ lastOp'.op = "_update_frame"
          => \/ current_position' = lastOp.arg.p
             \/ /\ current_position' = 0
                /\ <<"stateChanged", StoppedState>> \in Range(emitted')]_vars

\* A seek into the media, then a frame tick that delivered a frame.
C10_Witness ==
    /\ lastOp.op = "_update_frame" /\ lastOp.prev = "setPosition"
    /\ lastOp.prevArg.valid /\ lastOp.prevArg.open /\ lastOp.prevArg.p > 0
    /\ current_position = lastOp.prevArg.p
    /\ Emitted("frameChanged") # {}

\* C11, as claimed: setPosition() called in Playing returns in Playing with
\* both timers running, and called in Paused returns in Paused with both
\* timers stopped, whichever of its paths is taken and also when all fail.
C11_SeekKeepsTransport ==
    lastOp.op = "setPosition" =>
        /\ lastOp.from = PlayingState =>
               _state = PlayingState /\ timer /\ position_timer
        /\ lastOp.from = PausedState =>
               _state = PausedState /\ ~timer /\ ~position_timer

\* C12, as claimed: a setPosition() whose fast seek and whose re-init both fail
\* (the decoder it found open is gone when it returns) leaves current_position
\* and seek_position as they were.
C12_FailedSeekIsNoOp ==
    [][/\ lastOp'.op = "setPosition"
       /\ decoder # NoDecoder /\ decoder' = NoDecoder
       => UNCHANGED <<current_position, seek_position>>]_vars

\* The durationChanged signals among those the last handler emitted, in order.
DurationSignals == SelectSeq(emitted, LAMBDA e : e[1] = "durationChanged")

\* C20, as claimed: a play() from Stopped that succeeds emits durationChanged
\* once, and neither a play() from Paused nor a position tick emits it again.
C20_DurationOnce ==
    /\ lastOp.op = "play" /\ lastOp.from = StoppedState /\ _state = PlayingState
       => Len(DurationSignals) = 1
    /\ lastOp.op = "play" /\ lastOp.from = PausedState
       => Len(DurationSignals) = 0
    /\ lastOp.op = "_update_position" => Len(DurationSignals) = 0

\* C13: the volume is always within 0..100: setVolume(v) stores
\* min(100, max(0, v)), so 150 gives 100 and -10 gives 0.
C13_VolumeClamped ==
    /\ 0 <= _volume /\ _volume <= 100
    /\ lastOp.op = "setVolume" =>
           /\ _volume = Min(100, Max(0, lastOp.arg))
           /\ lastOp.arg = 150 => _volume = 100
           /\ lastOp.arg = -10 => _volume = 0

\* setVolume(150) has run.
C13_Witness ==
    lastOp.op = "setVolume" /\ lastOp.arg = 150 /\ _volume = MaxVolume

\* The calls of stop() the last handler made: each emits positionChanged(0)
\* once, and nothing else a frame tick calls emits it.
StopCalls == Len(SelectSeq(emitted, LAMBDA e : e = <<"positionChanged", 0>>))

\* C14, as claimed: a frame tick that finds the source exhausted makes one
\* call of stop(), never two, also when the playlist goes on to an item.
C14_OneStopAtEnd ==
    lastOp.op = "_update_frame" => StopCalls <= 1

\* C15: the frame buffer never holds more than twice frame_buffer_size; it
\* holds more than frame_buffer_size only as a seek left it or as frame ticks
\* have shortened it since; and a frame tick that finds more than
\* frame_buffer_size frames takes one and appends none.
C15_BufferBounded ==
    [][/\ Len(frame_buffer') <= 2 * frame_buffer_size
       /\ Len(frame_buffer') > frame_buffer_size =>
              \/ lastOp'.op = "setPosition"
              \/ Len(frame_buffer') <= Len(frame_buffer)
       /\ lastOp'.op = "_update_frame" /\ Len(frame_buffer) > frame_buffer_size =>
              frame_buffer' \in {frame_buffer, Tail(frame_buffer)}]_vars

\* A frame tick has taken a frame from a buffer that a seek had filled beyond
\* frame_buffer_size, while the generator had frames left to give.
C15_Witness ==
    /\ lastOp.op = "_update_frame" /\ lastOp.prev = "setPosition"
    /\ Len(frame_buffer) >= frame_buffer_size
    /\ Len(shown) = 1
    /\ frame_generator.next < NFrames(frame_generator.path)

\* C16: the frames shown since the decoder was opened are the first frames of
\* the decoder's sequence from the offset it was opened at, in order, none
\* skipped and none twice.
C16_FramesInOrder ==
    decoder # NoDecoder =>
        \A i \in 1..Len(shown) :
            shown[i] = FrameAt(decoder.path, decoder.ss) + i - 1

\* More frames have been shown than a prefill reads: frames of the prefill and
\* frames of refills, the last one by a frame tick.
C16_Witness ==
    /\ lastOp.op = "_update_frame" /\ decoder # NoDecoder
    /\ Len(shown) > frame_buffer_size
    /\ Emitted("frameChanged") # {}

\* C17: at every playback rate, two drift corrections of the audio, by the
\* callback or asked for by the monitor, are at least MinResyncGapMs apart
\* (here: two corrections with no call of the user between them).
C17_ResyncsApart ==
    \A i, j \in DOMAIN resyncs :
        i < j => resyncs[j].at - resyncs[i].at >= MinResyncGapMs

\* C18: a drift of at most HardDriftMs between audio and video moves no audio
\* cursor: every drift correction answers a drift above HardDriftMs.
C18_NoResyncBelowHardDrift ==
    \A i \in DOMAIN resyncs : resyncs[i].drift > HardDriftMs

\* C19: audio and video 1500 ms apart while playing are corrected once within
\* the next MinResyncGapMs and not again: with no call of the user in between,
\* the correction of such a drift is followed by no other before MinResyncGapMs
\* have passed.
C19_OneCorrectionOfLargeDrift ==
    \A i, j \in DOMAIN resyncs :
        (i < j /\ resyncs[i].drift >= 1500)
            => resyncs[j].at - resyncs[i].at >= MinResyncGapMs

\* C21: stop() releases the audio in every case, a pending seek included:
\* after stop() the player holds no audio stream and self._wf is closed.
C21_StopReleasesAudio ==
    lastOp.op = "stop" => (audio_stream = NoStream /\ ~_wf)

\* C22: stop() clears the frame buffer: after stop() frame_buffer is empty.
C22_StopClearsBuffer ==
    lastOp.op = "stop" => frame_buffer = <<>>

\* C23: the audio callback neither opens nor closes the audio file: no call
\* of _audio_callback changes whether self._wf is an open file.
C23_CallbackLeavesFile ==
    [][lastOp'.op = "_audio_callback" => _wf' = _wf]_vars

\* C24: when the extraction of the audio fails, a play() from Stopped on a
\* video that opens still succeeds, state Playing with both timers running,
\* and starts no audio thread.
C24_PlayWithoutAudio ==
    [][(/\ lastOp'.op = "play" /\ lastOp'.from = StoppedState
        /\ decoder' # NoDecoder /\ extracted' = "failed")
       => (/\ _state' = PlayingState /\ timer' /\ position_timer'
           /\ \A i \in ThreadIds :
                  threads'[i] = "start" => threads[i] = "start")]_vars

\* C25: the extracted WAV of a media item is removed on teardown: after stop()
\* no extracted WAV is left in the temp directory.
C25_StopRemovesWav ==
    lastOp.op = "stop" => temp_wav = {}

\* C26: whenever _init_decoder succeeds the duration is positive afterwards,
\* whatever the metadata and ffprobe say, and metadata that are missing never
\* make it fail: a play() from Stopped on a file that opens ends with a
\* positive duration, and in Playing unless the frame rate raised.
C26_DurationPositive ==
    [][(lastOp'.op = "play" /\ lastOp'.from = StoppedState
            /\ media_path \in machine.files)
       => /\ _state' = PlayingState => duration' > 0
          /\ machine.meta.source_video_framerate # Huge => _state' = PlayingState
      ]_vars

\* C26 witness: play() opened a file none of whose sources tells a positive
\* duration, and the duration is the default of one hour.
C26_Witness ==
    /\ lastOp.op = "play" /\ _state = PlayingState
    /\ ~machine.meta.is_dict /\ machine.meta.probe_out = Num(4)
    /\ duration = DefaultDuration

\* C27: the position tick detects the end of the stream on its own: when it
\* runs in Playing and the position it computes reaches the duration, the
\* playback is stopped, whatever the frame tick has seen.
C27_PositionTickStops ==
    [][(/\ lastOp'.op = "_update_position"
        /\ _state = PlayingState /\ duration > 0
        /\ current_position + PositionStep(World) >= duration)
       => _state' = StoppedState]_vars

\* C28: a successful setPosition(p), p = 0 included, leaves the audio cursor
\* alone and the next audio callback moves the cursor to p (clamped to the
\* length of the audio) and clears the pending seek.
C28_SeekMovesCursor ==
    [][/\ lastOp'.op = "setPosition" => wf_pos' = wf_pos
       /\ (/\ lastOp.op = "_update_position" /\ lastOp.prev = "setPosition"
           /\ lastOp.prevArg.valid /\ lastOp.prevArg.open
           /\ decoder # NoDecoder /\ _wf
           /\ \E i \in ThreadIds : streams[i] = "active"
           /\ lastOp'.op = "_audio_callback")
          => (/\ wf_pos' = ClampCursor(World, lastOp.prevArg.p)
              /\ seek_position' = 0)]_vars

\* C29: one decode error during a frame tick does not end the playback: the
\* frame is tried again on the next tick, and only repeated errors are taken
\* for the end of the stream. So a frame tick stops the playback of a decoder
\* that has raised at most once, in the read-ahead of a frame tick, only when
\* every frame from the decoder's offset to the last has been shown.
C29_DecodeErrorKeepsPlaying ==
    [][(/\ lastOp'.op = "_update_frame"
        /\ CanDecode(World) /\ _state' = StoppedState
        /\ raised \in {<<>>, <<"read-ahead">>})
       => FrameAt(decoder.path, decoder.ss) + Len(shown) = NFrames(decoder.path)]_vars

\* C30: drift correction corrects the audio only: no step of the drift monitor
\* of _play_audio and none of _audio_callback changes current_position, the
\* state or the decoder, and no decoder opened later, by stop() and play() or
\* another re-init, starts at the offset the drift monitor has left pending.
C30_DriftCorrectsAudioOnly ==
    [][/\ lastOp'.op \in {"_play_audio", "_audio_callback"}
            => UNCHANGED <<current_position, _state, decoder>>
       /\ (/\ pending = "_play_audio"
           /\ decoder' # decoder /\ decoder' # NoDecoder)
            => decoder'.ss # seek_position]_vars

\* In a handler's teardown nothing is released before the timers are stopped.
TimersFirst(log) ==
    \A i \in DOMAIN log :
        log[i] \in {"stream", "decoder"} => \E j \in 1..(i - 1) : log[j] = "timers"

\* C31: stop() stops both timers before it releases the audio stream and the
\* decoder, also when a frame tick calls it; and the tick that has called
\* stop() shows no frame and reads nothing more: buffer and frame generator
\* are left as the tick found them.
C31_StopInsideTick ==
    [][/\ lastOp'.op = "stop" => TimersFirst(teardown')
       /\ (lastOp'.op = "_update_frame" /\ "decoder" \in Range(teardown'))
            => /\ TimersFirst(teardown')
               /\ Emitted("frameChanged")' = {}
               /\ decoder' = NoDecoder
                    => UNCHANGED <<frame_buffer, frame_generator>>]_vars

\* A frame tick has found the stream at its end while audio was playing and
\* has stopped the player: timers, then the stream, then the decoder.
C31_Witness ==
    /\ lastOp.op = "_update_frame" /\ _state = StoppedState
    /\ teardown = <<"timers", "stream", "decoder">>

\* C32: both ticks act in Playing only: a frame tick (with its refill) or a
\* position tick that fires while the player is Stopped or Paused changes no
\* field of the player and emits no signal.
C32_TicksOnlyInPlaying ==
    [][(/\ lastOp'.op \in {"_update_frame", "_update_position"}
        /\ _state # PlayingState)
       => UNCHANGED progVars /\ emitted' = <<>>]_vars

\* A tick has fired outside Playing: setMedia() during playback has set the
\* state to Stopped and left timers, decoder and buffered frames in place.
C32_Witness ==
    /\ lastOp.op \in {"_update_frame", "_update_position"}
    /\ _state = StoppedState /\ timer /\ position_timer
    /\ decoder # NoDecoder /\ frame_buffer # <<>> /\ duration > 0

\* C33: while the player is Paused no audio is rendered and the audio cursor
\* stands still, however pause() and the audio thread started by play()
\* interleave: in Paused no stream is active, so PortAudio runs no callback.
C33_PausedIsSilent ==
    _state = PausedState => \A i \in ThreadIds : streams[i] # "active"

\* C34: pause() releases no audio: the stream that is open when the player is
\* Paused stays open, and stays self.audio_stream, in every step of the audio
\* thread, so that play() can resume it.
C34_PauseKeepsStream ==
    [][(/\ _state = PausedState /\ audio_stream # NoStream
        /\ lastOp'.op = "_play_audio")
       => (/\ audio_stream' = audio_stream
           /\ streams'[audio_stream] # "none")]_vars

\* C35: after a successful play() from Stopped the position is the offset the
\* decoder was opened at: 0 when no seek is pending and the pending offset
\* otherwise.
C35_PlayStartsAtOffset ==
    [][(/\ lastOp'.op = "play"
        /\ _state = StoppedState /\ _state' = PlayingState)
       => (/\ decoder'.ss = seek_position
           /\ current_position' = decoder'.ss)]_vars

\* C36: in every reachable state the frame timer and the position timer run if
\* and only if the player is Playing, and a Stopped player has no decoder.
C36_TimersMatchState ==
    /\ timer <=> _state = PlayingState
    /\ position_timer <=> _state = PlayingState
    /\ _state = StoppedState => decoder = NoDecoder

\* C37: after stop() no audio is rendered while the player is Stopped: a
\* _play_audio thread that stop() has overtaken opens and starts no stream,
\* so a step of an audio thread in the Stopped state that stop() has left
\* leaves no stream active.
C37_StoppedIsSilent ==
    [][(/\ lastOp.op = "stop" /\ _state = StoppedState
        /\ lastOp'.op = "_play_audio")
       => \A i \in ThreadIds : streams'[i] # "active"]_vars

\* C38: an audio thread stops and closes none but its own stream: when an
\* audio thread leaves its wait loop, the streams of the other threads are
\* left as they were and self.audio_stream, when it names the stream of
\* another thread, is kept.
C38_OwnStreamOnly ==
    [][\A i \in ThreadIds :
            (threads[i] = "loop" /\ threads'[i] = "none")
                => \A j \in ThreadIds \ {i} :
                       /\ streams'[j] = streams[j]
                       /\ audio_stream = j => audio_stream' = j]_vars

\* C39: no seek is lost to the audio: when a callback clears the mark that
\* setPosition(p) left in seek_position, the cursor of the open audio file is
\* at p (as setpos takes it), give or take the tolerance of the callback and
\* the period it may have read since.
C39_NoSeekLost ==
    [][(/\ lastOp'.op = "_audio_callback"
        /\ pending = "setPosition"
        /\ seek_position > 0 /\ seek_position' = 0
        /\ _wf')
          => Abs(wf_pos' - ClampCursor(World, seek_position))
                 <= SeekToleranceMs + PeriodMs]_vars

\* The player has been stopped, given the current item and started.
Replayed ==
    /\ "timers" \in Range(teardown')
    /\ media_path' = items[current_index + 1]

\* C40: next() selects by the play mode and the index stays valid. In
\* CurrentItemOnce a call changes nothing; in CurrentItemInLoop it keeps the
\* index and, with a current item and a player, replays the item; in
\* Sequential it moves on by one and does nothing at the last item; in Loop it
\* moves on by one and from the last item to the first. setCurrentIndex
\* ignores an index outside the list, and the index is always -1 or that of
\* an item (at most 0 on an empty list).
C40_NextByMode ==
    /\ [](-1 <= current_index /\ current_index < Max(1, Len(items)))
    /\ [][/\ (lastOp'.op = "setCurrentIndex"
               /\ ~(0 <= lastOp'.arg /\ lastOp'.arg < Len(items)))
                 => UNCHANGED progVars /\ emitted' = <<>>
          /\ lastOp'.op = "next" =>
                /\ items' = items /\ play_mode' = play_mode
                /\ play_mode = CurrentItemOnce
                      => UNCHANGED progVars /\ emitted' = <<>>
                /\ play_mode = CurrentItemInLoop
                      => /\ current_index' = current_index
                         /\ Emitted("currentIndexChanged")' = {}
                         /\ IF current_index >= 0 /\ player THEN Replayed
                            ELSE UNCHANGED progVars
                /\ (play_mode = Sequential /\ current_index + 1 < Len(items))
                      => current_index' = current_index + 1
                /\ (play_mode = Sequential /\ current_index + 1 >= Len(items))
                      => UNCHANGED progVars /\ emitted' = <<>>
                /\ (play_mode = Loop /\ items # <<>>)
                      => current_index' = (current_index + 1) % Len(items)
         ]_<<lastOp.op, vars>>

\* next() in Loop has gone from the last item to the first.
C40_Witness ==
    /\ lastOp.op = "next"
    /\ play_mode = Loop
    /\ Len(items) = MaxItems
    /\ current_index = 0
    /\ Emitted("currentIndexChanged") = {<<"currentIndexChanged", 0>>}

=============================================================================
